---- MODULE Spec2Model ----
(***************************************************************************)
(* Model of the vault accounting engine of examples/svm/materialized_vault *)
(* (state.rs, processor.rs).                                               *)
(*                                                                         *)
(* The Rust code works on u64 totals with a u128 intermediate.  The model  *)
(* keeps the same arithmetic on a machine word of w bits and a double      *)
(* word of 2w bits: saturating add/sub on the word, saturating mul/div on  *)
(* the double word, and the narrowing cast `as u64` as reduction modulo    *)
(* 2^w.  Every operator takes the word width as its first parameter.       *)
(***************************************************************************)
EXTENDS Integers, Sequences, FiniteSets, TLC

\* Width in bits of the scaled-down u64 used by Spec.
WordBits == 3

\* Width in bits of the word used by ScenarioSpec (wide enough for 200).
ScenarioBits == 8

\* Largest number of accounts a caller passes.
MaxAccounts == 1

\* Largest number of withdraw calls SplitSpec makes on a vault.
MaxWithdrawals == 2

\* Number of bytes of a u64 amount in instruction_data.
AmountBytes == 8

\* Owner keys a vault can be created with.
Owners == {"owner_a", "owner_b"}

\* Lengths of instruction_data a caller passes: one byte short, exact,
\* one byte long.
DataLens == {AmountBytes - 1, AmountBytes, AmountBytes + 1}

VARIABLES
    owner,         \* Vault.owner
    shares_total,  \* Vault.shares_total
    token_total,   \* Vault.token_total
    instr,         \* the instruction processed last ("none" after Vault::new)
    amount,        \* the amount it decoded from instruction_data
    result,        \* what it returned
    pre_shares,    \* Vault.shares_total when it was entered
    pre_tokens,    \* Vault.token_total when it was entered
    well_formed,   \* whether it was passed a vault account and a whole amount
    converted,     \* its shares_to_mint or tokens_to_return (0 if it has none)
    script_pos,    \* how many calls of Script the calls so far have matched
    withdrawals,   \* the withdraw calls of SplitSpec, oldest first
    add_call       \* the last call of add: its arguments and its outcome

vars == <<owner, shares_total, token_total, instr, amount, result,
          pre_shares, pre_tokens, well_formed, converted, script_pos,
          withdrawals, add_call>>

\* what no instruction of the vault program touches
outside == <<withdrawals, add_call>>

vault == <<owner, shares_total, token_total>>

---------------------------------------------------------------------------
\* Integer arithmetic of the code, on a w-bit word.

U64Max(w) == 2^w - 1

U128Max(w) == 2^(2 * w) - 1

U64(w) == 0 .. U64Max(w)

wrapping_add(w, a, b) == (a + b) % 2^w

saturating_add(w, a, b) == IF a + b > U64Max(w) THEN U64Max(w) ELSE a + b

wrapping_sub(w, a, b) == (a - b + 2^w) % 2^w

saturating_sub(w, a, b) == IF a < b THEN 0 ELSE a - b

\* u128::saturating_mul of two values widened from u64
saturating_mul_u128(w, a, b) ==
    IF a * b > U128Max(w) THEN U128Max(w) ELSE a * b

\* What a conversion yields when its division panics.
DivideByZero == -1

\* u128::saturating_div panics when the divisor is 0
saturating_div_u128(w, a, b) == IF b = 0 THEN DivideByZero ELSE a \div b

\* the cast `as u64` of a u128 value keeps the low word (a panic before
\* the cast is passed on)
as_u64(w, x) == IF x = DivideByZero THEN DivideByZero ELSE x % 2^w

---------------------------------------------------------------------------
\* The conversions of process_deposit and process_withdraw.

shares_to_mint_inverted(w, shares, tokens, token_amount) ==
    IF tokens = 0 \/ shares = 0
    THEN token_amount
    ELSE as_u64(w, saturating_div_u128(w,
             saturating_mul_u128(w, token_amount, tokens), shares))

shares_to_mint_no_bootstrap(w, shares, tokens, token_amount) ==
    IF tokens = 0
    THEN 0
    ELSE as_u64(w, saturating_div_u128(w,
             saturating_mul_u128(w, token_amount, shares), tokens))

shares_to_mint(w, shares, tokens, token_amount) ==
    IF tokens = 0
    THEN token_amount
    ELSE as_u64(w, saturating_div_u128(w,
             saturating_mul_u128(w, token_amount, shares), tokens))

tokens_to_return_unguarded(w, shares, tokens, shares_amount) ==
    as_u64(w, saturating_div_u128(w,
        saturating_mul_u128(w, shares_amount, tokens), shares))

tokens_to_return_rounding_up(w, shares, tokens, shares_amount) ==
    IF shares = 0
    THEN 0
    ELSE as_u64(w, saturating_div_u128(w,
             saturating_mul_u128(w, shares_amount, tokens) + (shares - 1),
             shares))

tokens_to_return_one_to_one(w, shares, tokens, shares_amount) ==
    IF shares = 0 THEN 0 ELSE shares_amount

tokens_to_return(w, shares, tokens, shares_amount) ==
    IF shares = 0
    THEN 0
    ELSE as_u64(w, saturating_div_u128(w,
             saturating_mul_u128(w, shares_amount, tokens), shares))

---------------------------------------------------------------------------
\* The scenario of the specification: five calls on a new vault.

Script == << [op |-> "deposit",  amt |-> 100],
             [op |-> "deposit",  amt |-> 50],
             [op |-> "reward",   amt |-> 30],
             [op |-> "withdraw", amt |-> 50],
             [op |-> "slash",    amt |-> 200] >>

ScenarioAmounts == {Script[i].amt : i \in DOMAIN Script}

\* -1 once a call differs from the script
ScriptStep(op, amt, res) ==
    IF /\ script_pos >= 0
       /\ script_pos < Len(Script)
       /\ res = "Ok"
       /\ Script[script_pos + 1] = [op |-> op, amt |-> amt]
    THEN script_pos + 1
    ELSE -1

---------------------------------------------------------------------------
\* Vault::new(owner)

VaultNew(o) ==
    /\ owner = o
    /\ shares_total = 0
    /\ token_total = 0

Init ==
    /\ \E o \in Owners : VaultNew(o)
    /\ instr = "none"
    /\ amount = 0
    /\ result = "none"
    /\ pre_shares = 0
    /\ pre_tokens = 0
    /\ well_formed = FALSE
    /\ converted = 0
    /\ script_pos = 0
    /\ withdrawals = <<>>
    /\ add_call = [x |-> 0, y |-> 0, trapped |-> FALSE, sum |-> 0]

Called_rewriting_owner(op, amt, res) ==
    /\ instr' = op
    /\ amount' = amt
    /\ result' = res
    /\ pre_shares' = shares_total
    /\ pre_tokens' = token_total
    /\ script_pos' = ScriptStep(op, amt, res)
    /\ owner' = IF res = "Ok" THEN "owner_a" ELSE owner

\* What every call records, and a call that returns before it writes.
Called(op, amt, res) ==
    /\ instr' = op
    /\ amount' = amt
    /\ result' = res
    /\ pre_shares' = shares_total
    /\ pre_tokens' = token_total
    /\ script_pos' = ScriptStep(op, amt, res)
    /\ owner' = owner

Rejected(op, res) ==
    /\ Called(op, 0, res)
    /\ converted' = 0
    /\ UNCHANGED <<shares_total, token_total>>

\* instruction_data holds a whole amount and accounts holds the vault
WellFormed(accounts, data_len) == accounts >= 1 /\ data_len >= AmountBytes

process_deposit(w, accounts, data_len, token_amount) ==
    /\ well_formed' = WellFormed(accounts, data_len)
    /\ IF data_len < AmountBytes
       THEN Rejected("deposit", "InvalidInstructionData")
       ELSE IF accounts = 0
       THEN Rejected("deposit", "NotEnoughAccountKeys")
       ELSE LET mint == shares_to_mint(w, shares_total, token_total, token_amount)
            IN  IF mint = DivideByZero
                THEN Rejected("deposit", "Panic")
                ELSE /\ token_total' = saturating_add(w, token_total, token_amount)
                     /\ shares_total' = saturating_add(w, shares_total, mint)
                     /\ converted' = mint
                     /\ Called("deposit", token_amount, "Ok")

process_withdraw(w, accounts, data_len, shares_amount) ==
    /\ well_formed' = WellFormed(accounts, data_len)
    /\ IF accounts = 0
       THEN Rejected("withdraw", "NotEnoughAccountKeys")
       ELSE IF data_len < AmountBytes
       THEN Rejected("withdraw", "Panic")
       ELSE LET ret == tokens_to_return(w, shares_total, token_total, shares_amount)
            IN  IF ret = DivideByZero
                THEN Rejected("withdraw", "Panic")
                ELSE /\ token_total' = saturating_sub(w, token_total, ret)
                     /\ shares_total' = saturating_sub(w, shares_total, shares_amount)
                     /\ converted' = ret
                     /\ Called("withdraw", shares_amount, "Ok")

process_reward_minting(w, accounts, data_len, token_amount) ==
    /\ well_formed' = WellFormed(accounts, data_len)
    /\ IF accounts = 0
       THEN Rejected("reward", "NotEnoughAccountKeys")
       ELSE IF data_len < AmountBytes
       THEN Rejected("reward", "Panic")
       ELSE /\ token_total' = saturating_add(w, token_total, token_amount)
            /\ shares_total' = saturating_add(w, shares_total, token_amount)
            /\ converted' = 0
            /\ Called("reward", token_amount, "Ok")

process_reward_subtracting(w, accounts, data_len, token_amount) ==
    /\ well_formed' = WellFormed(accounts, data_len)
    /\ IF accounts = 0
       THEN Rejected("reward", "NotEnoughAccountKeys")
       ELSE IF data_len < AmountBytes
       THEN Rejected("reward", "Panic")
       ELSE /\ token_total' = saturating_sub(w, token_total, token_amount)
            /\ shares_total' = shares_total
            /\ converted' = 0
            /\ Called("reward", token_amount, "Ok")

process_reward(w, accounts, data_len, token_amount) ==
    /\ well_formed' = WellFormed(accounts, data_len)
    /\ IF accounts = 0
       THEN Rejected("reward", "NotEnoughAccountKeys")
       ELSE IF data_len < AmountBytes
       THEN Rejected("reward", "Panic")
       ELSE /\ token_total' = saturating_add(w, token_total, token_amount)
            /\ shares_total' = shares_total
            /\ converted' = 0
            /\ Called("reward", token_amount, "Ok")

process_slash_burning(w, accounts, data_len, token_amount) ==
    /\ well_formed' = WellFormed(accounts, data_len)
    /\ IF accounts = 0
       THEN Rejected("slash", "NotEnoughAccountKeys")
       ELSE IF data_len < AmountBytes
       THEN Rejected("slash", "Panic")
       ELSE /\ token_total' = saturating_sub(w, token_total, token_amount)
            /\ shares_total' = saturating_sub(w, shares_total, token_amount)
            /\ converted' = 0
            /\ Called("slash", token_amount, "Ok")

process_slash(w, accounts, data_len, token_amount) ==
    /\ well_formed' = WellFormed(accounts, data_len)
    /\ IF accounts = 0
       THEN Rejected("slash", "NotEnoughAccountKeys")
       ELSE IF data_len < AmountBytes
       THEN Rejected("slash", "Panic")
       ELSE /\ token_total' = saturating_sub(w, token_total, token_amount)
            /\ shares_total' = shares_total
            /\ converted' = 0
            /\ Called("slash", token_amount, "Ok")

---------------------------------------------------------------------------
\* Any caller, any input.

\* The amounts instruction_data can carry: any, or none that is read when
\* the call is rejected before the amount is used.
Amounts(accounts, data_len) ==
    IF WellFormed(accounts, data_len) THEN U64(WordBits) ELSE {0}

Deposit ==
    \E n \in 0 .. MaxAccounts, len \in DataLens : \E a \in Amounts(n, len) :
        process_deposit(WordBits, n, len, a) /\ UNCHANGED outside

Withdraw ==
    \E n \in 0 .. MaxAccounts, len \in DataLens : \E a \in Amounts(n, len) :
        process_withdraw(WordBits, n, len, a) /\ UNCHANGED outside

Reward ==
    \E n \in 0 .. MaxAccounts, len \in DataLens : \E a \in Amounts(n, len) :
        process_reward(WordBits, n, len, a) /\ UNCHANGED outside

Slash ==
    \E n \in 0 .. MaxAccounts, len \in DataLens : \E a \in Amounts(n, len) :
        process_slash(WordBits, n, len, a) /\ UNCHANGED outside

Next == Deposit \/ Withdraw \/ Reward \/ Slash

Spec == Init /\ [][Next]_vars

---------------------------------------------------------------------------
\* Deposit, withdraw and reward only, from any solvent vault.

InitSolvent ==
    /\ owner \in Owners
    /\ shares_total \in U64(WordBits)
    /\ token_total \in U64(WordBits)
    /\ shares_total <= token_total
    /\ instr = "none"
    /\ amount = 0
    /\ result = "none"
    /\ pre_shares = shares_total
    /\ pre_tokens = token_total
    /\ well_formed = FALSE
    /\ converted = 0
    /\ script_pos = 0
    /\ withdrawals = <<>>
    /\ add_call = [x |-> 0, y |-> 0, trapped |-> FALSE, sum |-> 0]

NextNoSlash == Deposit \/ Withdraw \/ Reward

NoSlashSpec == InitSolvent /\ [][NextNoSlash]_vars

---------------------------------------------------------------------------
\* Well-formed calls with the amounts of the scenario, on the word of the
\* scenario, for as long as the calls made so far are those of Script.

ScenarioDeposit ==
    /\ script_pos >= 0
    /\ \E a \in ScenarioAmounts :
           process_deposit(ScenarioBits, 1, AmountBytes, a)
    /\ UNCHANGED outside

ScenarioWithdraw ==
    /\ script_pos >= 0
    /\ \E a \in ScenarioAmounts :
           process_withdraw(ScenarioBits, 1, AmountBytes, a)
    /\ UNCHANGED outside

ScenarioReward ==
    /\ script_pos >= 0
    /\ \E a \in ScenarioAmounts :
           process_reward(ScenarioBits, 1, AmountBytes, a)
    /\ UNCHANGED outside

ScenarioSlash ==
    /\ script_pos >= 0
    /\ \E a \in ScenarioAmounts :
           process_slash(ScenarioBits, 1, AmountBytes, a)
    /\ UNCHANGED outside

ScenarioNext ==
    ScenarioDeposit \/ ScenarioWithdraw \/ ScenarioReward \/ ScenarioSlash

ScenarioSpec == Init /\ [][ScenarioNext]_vars

---------------------------------------------------------------------------
\* Well-formed withdraw calls, one after the other, on a vault in any state;
\* each call is logged with the totals it found.

InitAny ==
    /\ owner \in Owners
    /\ shares_total \in U64(WordBits)
    /\ token_total \in U64(WordBits)
    /\ instr = "none"
    /\ amount = 0
    /\ result = "none"
    /\ pre_shares = shares_total
    /\ pre_tokens = token_total
    /\ well_formed = FALSE
    /\ converted = 0
    /\ script_pos = 0
    /\ withdrawals = <<>>
    /\ add_call = [x |-> 0, y |-> 0, trapped |-> FALSE, sum |-> 0]

SplitWithdraw ==
    /\ Len(withdrawals) < MaxWithdrawals
    /\ \E a \in U64(WordBits) :
           /\ process_withdraw(WordBits, 1, AmountBytes, a)
           /\ withdrawals' = Append(withdrawals,
                  [shares |-> shares_total, tokens |-> token_total,
                   amount |-> a])
    /\ UNCHANGED add_call

SplitSpec == InitAny /\ [][SplitWithdraw]_vars

---------------------------------------------------------------------------
\* materialized_trivial_addition: add(x, y) is `x + y` on u64.  The sum
\* wraps when the build has overflow checks off and panics when it has them
\* on (the debug and test profiles), so an overflowing call has two outcomes.

add_outcomes(w, x, y) ==
    IF x + y > U64Max(w)
    THEN { [trapped |-> FALSE, sum |-> (x + y) % 2^w],
           [trapped |-> TRUE,  sum |-> 0] }
    ELSE { [trapped |-> FALSE, sum |-> x + y] }

add(w, x, y) ==
    /\ \E o \in add_outcomes(w, x, y) :
           add_call' = [x |-> x, y |-> y, trapped |-> o.trapped, sum |-> o.sum]
    /\ UNCHANGED <<owner, shares_total, token_total, instr, amount, result,
                   pre_shares, pre_tokens, well_formed, converted, script_pos,
                   withdrawals>>

Add == \E x \in U64(WordBits), y \in U64(WordBits) : add(WordBits, x, y)

AddSpec == Init /\ [][Add]_vars

---------------------------------------------------------------------------
\* What the claims read of the call recorded last.

Ok(op) == instr = op /\ result = "Ok"

Solvent(shares, tokens) == shares <= tokens

Min(a, b) == IF a < b THEN a ELSE b

Max(a, b) == IF a > b THEN a ELSE b

MAX == U64Max(WordBits)

---------------------------------------------------------------------------
\* C1: from any solvent vault, after every deposit, withdraw or reward of
\* any amount, shares_total <= token_total; also when the withdrawn amount
\* exceeds shares_total and when a total saturates.
C1_Solvency == Solvent(shares_total, token_total)

\* a withdraw of more shares than exist, from a vault that holds tokens
C1_Witness ==
    /\ Ok("withdraw")
    /\ amount > pre_shares
    /\ pre_shares > 0
    /\ pre_tokens > pre_shares

\* C2 as stated: every slash with amount > 0 and
\* token_total < shares_total + amount leaves the vault insolvent.
C2_SlashInsolvent ==
    (Ok("slash") /\ amount > 0 /\ pre_tokens < pre_shares + amount)
        => ~Solvent(shares_total, token_total)

\* C2 amended: every slash with amount > 0 and
\* token_total < shares_total + amount of a vault with shares_total > 0
\* leaves the vault insolvent.
C2_SlashInsolventWithShares ==
    (Ok("slash") /\ amount > 0 /\ pre_shares > 0
                 /\ pre_tokens < pre_shares + amount)
        => ~Solvent(shares_total, token_total)

\* a slash that takes a solvent vault with shares to insolvency
C2_Witness ==
    /\ Ok("slash")
    /\ amount > 0
    /\ pre_shares > 0
    /\ Solvent(pre_shares, pre_tokens)
    /\ pre_tokens < pre_shares + amount
    /\ ~Solvent(shares_total, token_total)

\* C3: deposit(n) on a vault with token_total = 0 mints n shares:
\* token_total = n and shares_total = old shares_total + n clamped at the
\* maximum, so (n, n) on a new vault.
C3_Bootstrap ==
    (Ok("deposit") /\ pre_tokens = 0)
        => /\ token_total = amount
           /\ shares_total = Min(pre_shares + amount, MAX)
           /\ (pre_shares = 0 => shares_total = amount)

\* a bootstrap deposit into a drained vault whose shares clamp
C3_Witness ==
    /\ Ok("deposit")
    /\ pre_tokens = 0
    /\ pre_shares > 0
    /\ amount > 0
    /\ pre_shares + amount > MAX

\* C4: deposit(n) followed at once by a withdraw of exactly the shares that
\* deposit minted lowers token_total by at most n, in every vault state.
C4_RoundTrip ==
    [][(/\ Ok("deposit")
        /\ instr' = "withdraw"
        /\ result' = "Ok"
        /\ amount' = shares_to_mint(WordBits, pre_shares, pre_tokens, amount))
           => token_total - token_total' <= amount]_vars

\* C5: a deposit or a reward never lowers token_total or shares_total, and a
\* total that is at the maximum stays there.
C5_Monotone ==
    (Ok("deposit") \/ Ok("reward"))
        => /\ token_total >= pre_tokens
           /\ shares_total >= pre_shares
           /\ (pre_tokens = MAX => token_total = MAX)
           /\ (pre_shares = MAX => shares_total = MAX)

\* a deposit whose amount does not fit under the maximum of either total
C5_Witness ==
    /\ Ok("deposit")
    /\ pre_tokens > 0
    /\ pre_tokens < MAX
    /\ pre_shares < MAX
    /\ pre_tokens + amount > MAX
    /\ token_total = MAX
    /\ shares_total = MAX

\* C6 as stated: reward(n) on a vault with shares_total > 0 leaves
\* token_total larger than before and shares_total the same, for every n.
C6_RewardStrict ==
    (Ok("reward") /\ pre_shares > 0)
        => /\ token_total > pre_tokens
           /\ shares_total = pre_shares

\* C6 amended: reward(n) on a vault with shares_total > 0 leaves shares_total
\* the same and token_total no smaller, and larger when n > 0 and
\* token_total was below the maximum.
C6_RewardStrictBelowMax ==
    (Ok("reward") /\ pre_shares > 0)
        => /\ shares_total = pre_shares
           /\ token_total >= pre_tokens
           /\ (amount > 0 /\ pre_tokens < MAX => token_total > pre_tokens)

\* a reward that raises token_total up to the clamp
C6_Witness ==
    /\ Ok("reward")
    /\ pre_shares > 0
    /\ amount > 0
    /\ pre_tokens < MAX
    /\ pre_tokens + amount > MAX
    /\ token_total > pre_tokens

\* C7: deposit(100), deposit(50), reward(30), withdraw(50), slash(200) on a
\* new vault visit (shares_total, token_total) = (100,100), (150,150),
\* (150,180), (100,120), (100,0), the last one insolvent.
C7_Scenario ==
    /\ script_pos = 0 => <<shares_total, token_total>> = <<0, 0>>
    /\ script_pos = 1 => <<shares_total, token_total>> = <<100, 100>>
    /\ script_pos = 2 => <<shares_total, token_total>> = <<150, 150>>
    /\ script_pos = 3 => <<shares_total, token_total>> = <<150, 180>>
    /\ script_pos = 4 => <<shares_total, token_total>> = <<100, 120>>
    /\ script_pos = 5 => /\ <<shares_total, token_total>> = <<100, 0>>
                         /\ ~Solvent(shares_total, token_total)

\* the five calls of the scenario have been made, in order
C7_Witness ==
    /\ script_pos = Len(Script)
    /\ Ok("slash")
    /\ amount = 200
    /\ <<pre_shares, pre_tokens>> = <<100, 120>>

\* C8: deposit(a) on a vault with token_total /= 0 mints
\* floor(a * shares_total / token_total) shares: token_total becomes
\* min(token_total + a, maximum) and shares_total becomes
\* min(shares_total + floor(a * shares_total / token_total), maximum).
C8_DepositFloor ==
    (Ok("deposit") /\ pre_tokens /= 0)
        => LET shares_minted == (amount * pre_shares) \div pre_tokens
           IN  /\ token_total = Min(pre_tokens + amount, MAX)
               /\ shares_total = Min(pre_shares + shares_minted, MAX)

\* C9: withdraw(a) returns 0 tokens when shares_total = 0 and
\* floor(a * token_total / shares_total) otherwise: token_total becomes
\* max(token_total - tokens_returned, 0) and shares_total becomes
\* max(shares_total - a, 0).
C9_WithdrawFloor ==
    Ok("withdraw")
        => LET tokens_returned ==
                   IF pre_shares = 0
                   THEN 0
                   ELSE (amount * pre_tokens) \div pre_shares
           IN  /\ token_total = Max(pre_tokens - tokens_returned, 0)
               /\ shares_total = Max(pre_shares - amount, 0)

\* C10: slash(a) sets token_total to max(token_total - a, 0) and leaves
\* shares_total as it was.
C10_SlashEffect ==
    Ok("slash")
        => /\ token_total = Max(pre_tokens - amount, 0)
           /\ shares_total = pre_shares

\* a slash of more than the vault holds, with shares outstanding
C10_Witness ==
    /\ Ok("slash")
    /\ pre_shares > 0
    /\ pre_tokens > 0
    /\ amount > pre_tokens
    /\ token_total = 0

\* C11: reward(a) sets token_total to min(token_total + a, maximum) and
\* leaves shares_total as it was.
C11_RewardEffect ==
    Ok("reward")
        => /\ token_total = Min(pre_tokens + amount, MAX)
           /\ shares_total = pre_shares

\* a reward that clamps token_total, on a vault without shares
C11_Witness ==
    /\ Ok("reward")
    /\ pre_shares = 0
    /\ pre_tokens > 0
    /\ pre_tokens + amount > MAX
    /\ token_total = MAX

\* C12: a call of any of the four instructions with a vault account and at
\* least 8 bytes of amount succeeds, in every vault state and for every
\* amount: no clamp is an error and no division panics on a zero total.
C12_WellFormedSucceeds ==
    (instr /= "none" /\ well_formed) => result = "Ok"

\* a withdraw on a vault that holds tokens and has no shares
C12_Witness ==
    /\ Ok("withdraw")
    /\ well_formed
    /\ pre_shares = 0
    /\ pre_tokens > 0
    /\ amount > 0
    /\ converted = 0

\* C13: add(x, y) returns x + y modulo 2^64 (the width of the word) for
\* all x and y, and never fails or traps.
C13_AddWraps ==
    /\ ~add_call.trapped
    /\ add_call.sum = (add_call.x + add_call.y) % (MAX + 1)

\* C14: a call of any of the four instructions with fewer than 8 bytes of
\* amount or without a vault account returns an error value and leaves
\* both totals unchanged.
C14_MalformedRejected ==
    (instr /= "none" /\ ~well_formed)
        => /\ result \in {"InvalidInstructionData", "NotEnoughAccountKeys"}
           /\ shares_total = pre_shares
           /\ token_total = pre_tokens

\* C15: the owner that Vault::new set, with both totals zero, is changed by
\* no deposit, withdraw, reward or slash.
C15_OwnerKept ==
    /\ owner \in Owners /\ shares_total = 0 /\ token_total = 0
    /\ [][owner' = owner]_vars

\* a withdraw from a vault that a deposit filled and a slash made insolvent
C15_Witness ==
    /\ Ok("withdraw")
    /\ pre_shares > pre_tokens
    /\ pre_tokens > 0
    /\ amount > 0
    /\ token_total < pre_tokens
    /\ owner \in Owners

\* C16: on a vault with shares_total > 0, withdraw(a) with
\* a <= shares_total computes tokens_returned <= token_total (the floor of
\* a * token_total / shares_total), so token_total is lowered by exactly
\* that much; token_total clamps only when a > shares_total.
C16_NoClampWithinShares ==
    Ok("withdraw")
        => /\ (pre_shares > 0 /\ amount <= pre_shares)
                  => /\ converted = (amount * pre_tokens) \div pre_shares
                     /\ converted <= pre_tokens
                     /\ token_total = pre_tokens - converted
           /\ converted > pre_tokens => amount > pre_shares

\* a withdraw of part of the shares of an insolvent vault
C16_Witness ==
    /\ Ok("withdraw")
    /\ pre_shares > pre_tokens
    /\ pre_tokens > 1
    /\ amount > 0
    /\ amount < pre_shares
    /\ converted > 0

\* C17: on a vault with shares_total > 0, withdraw(a) with a >= shares_total
\* leaves shares_total = 0 and token_total = 0.
C17_FullWithdrawDrains ==
    (Ok("withdraw") /\ pre_shares > 0 /\ amount >= pre_shares)
        => /\ shares_total = 0
           /\ token_total = 0

\* C18 as stated: a deposit into a vault with shares_total > 0 and
\* token_total > 0 never lowers tokens per share:
\* token_total_after * shares_total_before >=
\* token_total_before * shares_total_after, for every amount.
C18_NoDilution ==
    (Ok("deposit") /\ pre_shares > 0 /\ pre_tokens > 0)
        => token_total * pre_shares >= pre_tokens * shares_total

\* C18 amended: the same, for every amount that token_total takes without
\* clamping (token_total + amount <= maximum).
C18_NoDilutionBelowMax ==
    (Ok("deposit") /\ pre_shares > 0 /\ pre_tokens > 0
                   /\ pre_tokens + amount <= MAX)
        => token_total * pre_shares >= pre_tokens * shares_total

\* a deposit into an insolvent vault that clamps shares_total, not token_total
C18_Witness ==
    /\ Ok("deposit")
    /\ pre_shares > 0
    /\ pre_tokens > 0
    /\ amount > 0
    /\ pre_tokens + amount <= MAX
    /\ pre_shares + converted > MAX
    /\ shares_total = MAX

\* The shares asked for by the logged withdraw calls, together.
RECURSIVE SharesAsked(_)
SharesAsked(calls) ==
    IF calls = <<>> THEN 0 ELSE calls[1].amount + SharesAsked(Tail(calls))

\* What one withdraw of `a` shares takes out of a vault and leaves in it.
SingleReturned(shares, tokens, a) ==
    tokens - saturating_sub(WordBits, tokens,
                 tokens_to_return(WordBits, shares, tokens, a))

SingleSharesLeft(shares, a) == saturating_sub(WordBits, shares, a)

\* C19: on a vault with shares_total > 0, withdraws of a then b shares with
\* a + b <= shares_total return together at most what one withdraw of
\* a + b shares returns from the same state, and leave the same
\* shares_total.
C19_SplitNotBetter ==
    (/\ Len(withdrawals) >= 2
     /\ withdrawals[1].shares > 0
     /\ SharesAsked(withdrawals) <= withdrawals[1].shares)
        => LET first == withdrawals[1]
               all   == SharesAsked(withdrawals)
           IN  /\ first.tokens - token_total
                      <= SingleReturned(first.shares, first.tokens, all)
               /\ shares_total = SingleSharesLeft(first.shares, all)

\* two withdraws that return less than one withdraw of their sum
C19_Witness ==
    /\ Len(withdrawals) = 2
    /\ withdrawals[1].shares > 0
    /\ withdrawals[1].amount > 0
    /\ withdrawals[2].amount > 0
    /\ SharesAsked(withdrawals) <= withdrawals[1].shares
    /\ withdrawals[1].tokens - token_total
           < SingleReturned(withdrawals[1].shares, withdrawals[1].tokens,
                            SharesAsked(withdrawals))

====
